---- MODULE Spec2Model ----
(***************************************************************************)
(* A model of Basic_Python_Diploma/YaDisk.py: the YaDisk client session    *)
(* (catalogue walk, create_folder, delete, upload, download, zip_file)     *)
(* against the remote disk it talks to.                                    *)
(*                                                                         *)
(* Strings are sequences of one-character strings, so that the code's      *)
(* str.split / "in" / concatenation are computed, not assumed.  A remote   *)
(* path is kept in the API's canonical form "disk:/a/b".                   *)
(***************************************************************************)
EXTENDS Integers, Sequences, FiniteSets, TLC

VARIABLES
    rdirs,        \* remote: the set of folder paths (canonical strings)
    rfiles,       \* remote: file path -> content (a sequence of bytes)
    all_files,    \* YaDisk.all_files: sequence of YaFile entries
    all_folders,  \* YaDisk.all_folders: sequence of YaFolder entries
    downloads,    \* local disk under downloads/: its directories and files
    call,         \* the last call made on the session, with its arguments
    log,          \* the requests that call issued, in order
    out,          \* what that call printed (the reports that carry meaning)
    ret,          \* what that call returned, or the exception it raised
    prev          \* the call before it, when the two were made back to back

vars == <<rdirs, rfiles, all_files, all_folders, downloads, call, log, out, ret, prev>>

\* name = value; rest: Op is the rest, as an operator of the name
Bind(value, Op(_)) == CHOOSE r \in {Op(x) : x \in {value}} : TRUE

----------------------------------------------------------------------------
(* Strings                                                                 *)

Alphabet == <<"-", ".", "/", "0", "1", "2", "3", "4", "5", "6", "7", "8", "9", ":", "_",
              "a", "b", "c", "d", "e", "f", "g", "h", "i", "j", "k", "l", "m", "n", "o",
              "p", "q", "r", "s", "t", "u", "v", "w", "x", "y", "z">>

Rank == [ch \in {Alphabet[i] : i \in 1..Len(Alphabet)} |->
            CHOOSE i \in 1..Len(Alphabet) : Alphabet[i] = ch]

\* s < t in lexicographic order: s is a proper prefix of t, or is the smaller
\* at the first place where they differ
StrLess(s, t) ==
    Bind({i \in 1..Len(s) : i > Len(t) \/ s[i] # t[i]}, LAMBDA differ :
         IF differ = {} THEN Len(s) < Len(t)
         ELSE Bind(CHOOSE i \in differ : \A j \in differ : i <= j, LAMBDA i :
                   i <= Len(t) /\ Rank[s[i]] < Rank[t[i]]))

StartsWith(s, p) == Len(p) <= Len(s) /\ SubSeq(s, 1, Len(p)) = p

\* str.find: the first index at which sep occurs in s, 0 when it does not
Find(s, sep) ==
    LET hits == {i \in 1..(Len(s) - Len(sep) + 1) : SubSeq(s, i, i + Len(sep) - 1) = sep}
    IN IF hits = {} THEN 0 ELSE CHOOSE i \in hits : \A j \in hits : i <= j

\* sep in s
Contains(s, sep) == Find(s, sep) # 0

\* s.split(sep)
RECURSIVE Split(_, _)
Split(s, sep) ==
    LET i == Find(s, sep)
    IN IF i = 0 THEN <<s>>
       ELSE <<SubSeq(s, 1, i - 1)>> \o Split(SubSeq(s, i + Len(sep), Len(s)), sep)

\* s.split(sep)[0] and s.split(sep)[-1]
SplitFirst(s, sep) == Split(s, sep)[1]
SplitLast(s, sep) == LET p == Split(s, sep) IN p[Len(p)]

Slash == <<"/">>
DiskPrefix == <<"d", "i", "s", "k", ":", "/">>

----------------------------------------------------------------------------
(* The remote disk, as the REST API presents it                            *)

RootPath == DiskPrefix

\* The API takes "a/b", "/a/b" and "disk:/a/b" for the same resource.
Canon(p) ==
    IF StartsWith(p, DiskPrefix) THEN p
    ELSE IF StartsWith(p, Slash) THEN SubSeq(DiskPrefix, 1, 5) \o p
    ELSE DiskPrefix \o p

\* The position of the last "/" of a canonical path
LastSlash(cp) ==
    Bind({i \in 1..Len(cp) : cp[i] = "/"}, LAMBDA at : CHOOSE i \in at : \A j \in at : j <= i)

BaseName(cp) == SubSeq(cp, LastSlash(cp) + 1, Len(cp))

ParentOf(cp) ==
    LET n == LastSlash(cp) - 1
    IN IF n < Len(DiskPrefix) THEN RootPath ELSE SubSeq(cp, 1, n)

\* q lies below folder p
Below(q, p) ==
    IF p = RootPath THEN q # RootPath /\ StartsWith(q, RootPath)
    ELSE StartsWith(q, p \o Slash)

IsDir(rd, cp) == cp = RootPath \/ cp \in rd
IsFile(rf, cp) == cp \in DOMAIN rf
Exists(rd, rf, cp) == IsDir(rd, cp) \/ IsFile(rf, cp)

\* A set of strings as a sequence in lexicographic order
SortStrs(S) ==
    Bind([x \in S |-> Cardinality({y \in S : StrLess(y, x)})], LAMBDA before :
         [i \in 1..Cardinality(S) |-> CHOOSE x \in S : before[x] = i - 1])

ChildPaths(rd, rf, cp) == SortStrs({q \in rd \cup DOMAIN rf : ParentOf(q) = cp})

\* One element of a listing's _embedded.items: a folder carries no size
DirItem(q) == [type |-> "dir", name |-> BaseName(q), path |-> q]
FileItem(rf, q) ==
    [type |-> "file", name |-> BaseName(q), path |-> q, size |-> Len(rf[q]), file |-> q]

Items(rd, rf, cp) ==
    Bind(ChildPaths(rd, rf, cp), LAMBDA c :
         [i \in 1..Len(c) |-> IF c[i] \in rd THEN DirItem(c[i]) ELSE FileItem(rf, c[i])])

----------------------------------------------------------------------------
(* Catalogue entries                                                       *)

YaFile(item) ==
    [type |-> item.type, name |-> item.name, path |-> item.path,
     size |-> item.size, link |-> item.file]

YaFolder(item) ==
    [type |-> item.type, name |-> item.name, path |-> item.path, size |-> item.size]

----------------------------------------------------------------------------
(* The catalogue walk                                                      *)

\* ParseItems without "yadisk_size += folder_size": a subfolder's size is left
\* out of its parent's total
RECURSIVE ParseItemsDropSub(_, _, _, _)
ParseItemsDropSub(rd, rf, items, acc) ==
    IF items = <<>> THEN acc
    ELSE Bind(Head(items), LAMBDA item :
         IF item.type = "dir"
         THEN Bind(ParseItemsDropSub(rd, rf, Items(rd, rf, item.path),
                                     [size |-> 0, files |-> acc.files,
                                      folders |-> acc.folders]),
                   LAMBDA sub :
                   ParseItemsDropSub(rd, rf, Tail(items),
                      [size |-> acc.size,
                       files |-> sub.files,
                       folders |-> Append(sub.folders,
                                     YaFolder([size |-> sub.size] @@ item))]))
         ELSE ParseItemsDropSub(rd, rf, Tail(items),
                      [size |-> acc.size + item.size,
                       files |-> Append(acc.files, YaFile(item)),
                       folders |-> acc.folders]))

\* The walk of the items of one listing, left to right.  acc is
\* [size, files, folders]: the running yadisk_size and what was appended;
\* sub is the walk of a subfolder, sub.size its folder_size.
RECURSIVE ParseItems(_, _, _, _)
ParseItems(rd, rf, items, acc) ==
    IF items = <<>> THEN acc
    ELSE Bind(Head(items), LAMBDA item :
         IF item.type = "dir"
         THEN Bind(ParseItems(rd, rf, Items(rd, rf, item.path),
                              [size |-> 0, files |-> acc.files,
                               folders |-> acc.folders]),
                   LAMBDA sub :
                   ParseItems(rd, rf, Tail(items),
                      [size |-> acc.size + sub.size,
                       files |-> sub.files,
                       folders |-> Append(sub.folders,
                                     YaFolder([size |-> sub.size] @@ item))]))
         ELSE ParseItems(rd, rf, Tail(items),
                      [size |-> acc.size + item.size,
                       files |-> Append(acc.files, YaFile(item)),
                       folders |-> acc.folders]))

\* self._parse_catalogues(path) on catalogue (files, folders)
ParseCatalogues(rd, rf, path, files, folders) ==
    ParseItems(rd, rf, Items(rd, rf, Canon(path)),
               [size |-> 0, files |-> files, folders |-> folders])

----------------------------------------------------------------------------
(* The state of one call: the remote, the session's catalogue, the local   *)
(* downloads directory, and what the call has done so far.                 *)
(*   n    the number of requests issued so far                             *)
(*   flt  the ordinals of the requests the remote answers with a failure   *)
(*   dup  how the remote reads a query parameter that is given twice       *)
(*   st   the status of the last response, href its upload URL ("" = none) *)
(*   lag  how many existence queries still find a folder with content      *)
(*        after its deletion was accepted (202); del, vis: the deletion    *)
(*        now in the background and the queries it is still visible to     *)
(*   content  the body of the last file download                          *)

NoRet == [k |-> "none"]

CallState(flt, dup, lag) ==
    [rd |-> rdirs, rf |-> rfiles, af |-> all_files, ad |-> all_folders,
     dl |-> downloads, log |-> <<>>, out |-> <<>>, ret |-> NoRet,
     n |-> 0, flt |-> flt, dup |-> dup, st |-> 0, href |-> <<>>,
     lag |-> lag, del |-> <<>>, vis |-> 0, content |-> <<>>]

Faulty(s) == (s.n + 1) \in s.flt

\* A request and its response, recorded
Req(s, k, path, status, body) ==
    [s EXCEPT !.log = Append(@, [k |-> k, path |-> path, status |-> status, body |-> body]),
              !.n = @ + 1, !.st = status]

Say(s, msg, name) == [s EXCEPT !.out = Append(@, [msg |-> msg, name |-> name])]

Return(s, v) == [s EXCEPT !.ret = v]

\* A path parameter: a string, or (requests' encoding of a list) the same
\* parameter repeated once per element
StrParam(p) == [list |-> FALSE, v |-> p]
ListParam(l) == [list |-> TRUE, v |-> l]

\* The path the remote acts on; <<>> when it rejects the request
Resolve(s, param) ==
    IF ~param.list THEN Canon(param.v)
    ELSE IF s.dup = "first" THEN Canon(param.v[1])
    ELSE IF s.dup = "last" THEN Canon(param.v[Len(param.v)])
    ELSE <<>>

\* The remote once the deletion of cp has taken effect
Removed(s, cp) ==
    LET gone(q) == q = cp \/ Below(q, cp)
    IN [s EXCEPT !.rd = {q \in @ : ~gone(q)},
                 !.rf = [q \in {x \in DOMAIN @ : ~gone(x)} |-> @[q]],
                 !.del = <<>>, !.vis = 0]

\* GET <endpoint>?path=P.  A folder being deleted in the background is found
\* by vis more queries and is gone at the next.
RemoteGet(s, param) ==
    Bind(Resolve(s, param), LAMBDA cp :
         IF Faulty(s) THEN Req(s, "GET", cp, 503, <<>>)
         ELSE IF cp = <<>> THEN Req(s, "GET", cp, 400, <<>>)
         ELSE IF s.del # <<>> /\ s.vis = 0 /\ (cp = s.del \/ Below(cp, s.del))
              THEN Req(Removed(s, s.del), "GET", cp, 404, <<>>)
         ELSE IF Exists(s.rd, s.rf, cp)
              THEN Req([s EXCEPT !.vis = IF cp = s.del /\ @ > 0 THEN @ - 1 ELSE @],
                       "GET", cp, 200, <<>>)
         ELSE Req(s, "GET", cp, 404, <<>>))

\* PUT <endpoint>?path=P
RemotePut(s, param) ==
    Bind(Resolve(s, param), LAMBDA cp :
         IF Faulty(s) THEN Req(s, "PUT", cp, 503, <<>>)
         ELSE IF cp = <<>> THEN Req(s, "PUT", cp, 400, <<>>)
         ELSE IF Exists(s.rd, s.rf, cp) \/ ~IsDir(s.rd, ParentOf(cp))
              THEN Req(s, "PUT", cp, 409, <<>>)
         ELSE Req([s EXCEPT !.rd = @ \cup {cp}], "PUT", cp, 201, <<>>))

\* The JSON error object the API sends with a failure status
ErrorJson(status) == <<status>>

\* DELETE <endpoint>?path=P[&permanently=true]: 204 and done at once, or, for
\* a folder with content, 202 and done in the background; a failure comes
\* with its error object
RemoteDelete(s, p) ==
    Bind(Canon(p), LAMBDA cp :
         IF Faulty(s) THEN Req(s, "DELETE", cp, 503, ErrorJson(503))
         ELSE IF ~Exists(s.rd, s.rf, cp) THEN Req(s, "DELETE", cp, 404, ErrorJson(404))
         ELSE IF \E q \in s.rd \cup DOMAIN s.rf : Below(q, cp)
              THEN Req([s EXCEPT !.del = cp, !.vis = s.lag], "DELETE", cp, 202, <<>>)
         ELSE Req(Removed(s, cp), "DELETE", cp, 204, <<>>))

----------------------------------------------------------------------------
(* reload and create_folder                                                *)

ReloadMark == [k |-> "RELOAD", path |-> <<>>, status |-> 0, body |-> <<>>]

\* reload without "self.all_folders = []; self.all_files = []"
ReloadKeeping(s) ==
    Bind(ParseCatalogues(s.rd, s.rf, Slash, s.af, s.ad), LAMBDA w :
         [s EXCEPT !.af = w.files, !.ad = w.folders, !.log = Append(@, ReloadMark)])

Reload(s) ==
    Bind(ParseCatalogues(s.rd, s.rf, Slash, <<>>, <<>>), LAMBDA w :
         [s EXCEPT !.af = w.files, !.ad = w.folders, !.log = Append(@, ReloadMark)])

\* create_folder that creates without asking first whether the path exists
CreateFolderBlind(s, folder_name, param) ==
    Reload(Bind(RemotePut(s, param), LAMBDA creator :
                IF creator.st = 201 THEN Say(creator, "created", folder_name)
                ELSE Say(creator, "exists", folder_name)))

\* create_folder._create(): the request, and what is printed of its response
Create(test, folder_name, param) ==
    Bind(RemotePut(test, param), LAMBDA creator :
         IF creator.st = 201 THEN Say(creator, "created", folder_name)
         ELSE Say(creator, "create_failed", folder_name))

\* create_folder(folder_name, path) with the path given by the caller
CreateFolder(s, folder_name, param) ==
    Reload(Bind(RemoteGet(s, param), LAMBDA test :
                IF test.st = 404 THEN Create(test, folder_name, param)
                ELSE IF test.st = 200 THEN Say(test, "exists", folder_name)
                ELSE Say(test, "test_failed", folder_name)))

----------------------------------------------------------------------------
(* delete                                                                  *)

\* _check_existance with one query and no loop
CheckExistanceOnce(s, param) == RemoteGet(s, param)

\* delete._check_existance(param)
RECURSIVE CheckExistance(_, _)
CheckExistance(s, param) ==
    Bind(RemoteGet(s, param), LAMBDA test :
         IF test.st # 404 THEN CheckExistance(test, param) ELSE test)

\* return put.status_code, put.json()
ErrorPair(put) ==
    Return(put, [k |-> "error", status |-> put.st, body |-> put.log[Len(put.log)].body])

\* One object of delete: the request, and the poll when it was accepted
DeleteObject(s, obj) ==
    Bind(RemoteDelete(s, obj.path), LAMBDA put :
         IF put.st >= 300
         THEN ErrorPair(put)
         ELSE CheckExistance(put, StrParam(obj.path)))

\* The loop of delete going on after a failed request
RECURSIVE DeleteEachOn(_, _)
DeleteEachOn(s, objects) ==
    IF objects = <<>> THEN s
    ELSE DeleteEachOn(DeleteObject(s, Head(objects)), Tail(objects))

\* for obj in objects: ... (the loop ends at the first return)
RECURSIVE DeleteEach(_, _)
DeleteEach(s, objects) ==
    IF objects = <<>> \/ s.ret # NoRet THEN s
    ELSE DeleteEach(DeleteObject(s, Head(objects)), Tail(objects))

\* delete that reloads the catalogue also when a request failed
DeleteReloading(s, objects, isList, permanent) ==
    Bind(IF isList THEN DeleteEach(s, objects) ELSE DeleteObject(s, objects), LAMBDA done :
         IF done.ret # NoRet THEN Return(Reload(done), done.ret)
         ELSE Return(Reload(done), [k |-> "deleted", permanently |-> permanent]))

\* delete(objects): objects is a list of entries (isList) or one entry
Delete(s, objects, isList, permanent) ==
    Bind(IF isList THEN DeleteEach(s, objects) ELSE DeleteObject(s, objects), LAMBDA done :
         IF done.ret # NoRet THEN done
         ELSE Return(Reload(done), [k |-> "deleted", permanently |-> permanent]))

----------------------------------------------------------------------------
(* The local working directory (what upload reads) and the web (what a     *)
(* fetch by URL reads)                                                     *)

\* The local directories, by their paths relative to the working directory:
\* a holds f and b, a/b holds g, c and h, a/b/c holds f
LocalDirs == {<<"a">>, <<"a", "/", "b">>, <<"a", "/", "b", "/", "c">>}

\* The content of each local file
LocalFiles ==
    (<<"a", "/", "f">> :> <<1>>) @@
    (<<"a", "/", "b", "/", "g">> :> <<2, 2>>) @@
    (<<"a", "/", "b", "/", "h">> :> <<3>>) @@
    (<<"a", "/", "b", "/", "c", "/", "f">> :> <<4, 5>>) @@
    (<<"f", ".", "z", "i", "p">> :> <<6, 6>>)

\* The working directory also holds what download has put under downloads/
\* (local: its directories and files)
LocalPaths(local) ==
    LocalDirs \cup DOMAIN LocalFiles \cup local.dirs \cup DOMAIN local.files

\* os.path.isdir(path), and the bytes open(path, "rb") reads
IsLocalDir(local, path) == path \in LocalDirs \/ path \in local.dirs
ReadLocal(local, path) ==
    IF path \in DOMAIN LocalFiles THEN LocalFiles[path] ELSE local.files[path]

\* The last segment of a local path, and the path of the directory it is in
\* (<<>> for the working directory)
LocalName(path) == SplitLast(path, Slash)
LocalParent(path) == SubSeq(path, 1, Len(path) - Len(LocalName(path)) - 1)

\* What os.listdir(path) may return: of a directory its names in any order,
\* the order being the file system's; nothing is listed where upload lists
\* nothing, at a file
Listings(local, path) ==
    IF IsLocalDir(local, path)
    THEN Bind({LocalName(q) : q \in {q \in LocalPaths(local) : LocalParent(q) = path}},
              LAMBDA names :
              {l \in [1..Cardinality(names) -> names] :
                  \A i, j \in DOMAIN l : i # j => l[i] # l[j]})
    ELSE {<<>>}

\* No path: object_full_path is left as it was initialised
NotFound == <<>>

\* The paths a search by os.walk for the name object may end with, paths
\* being what lies below the directory walked.  os.walk visits every
\* directory before the directories in it, those side by side in the order
\* the file system lists them, and the last directory or file of that name
\* wins: any one that has no other in a directory below its own.
LastNamed(paths, object) ==
    Bind({q \in paths : LocalName(q) = object}, LAMBDA named :
         IF named = {} THEN {NotFound}
         ELSE {q \in named :
                  \A r \in named : ~StartsWith(LocalParent(r), LocalParent(q) \o Slash)})

\* The paths upload may find object at (lines 413-425): a name that exists
\* in the working directory is taken as it is, another is searched for
Found(local, object) ==
    IF object \in LocalPaths(local) THEN {object}
    ELSE LastNamed(LocalPaths(local), object)

\* What a server-side fetch of a URL stores
UrlContent(url) == <<Len(url)>>

\* The bytes MultipartEncoder puts before and after the file's bytes (the
\* boundary line and part headers; the closing boundary)

----------------------------------------------------------------------------
(* upload                                                                  *)

\* GET <endpoint>/upload?path=P: an upload URL (href) for a free path in an
\* existing folder; a response without href otherwise
RemoteGetUpload(s, p) ==
    Bind(Canon(p), LAMBDA cp :
         IF Faulty(s) THEN [Req(s, "GET_UPLOAD", cp, 503, <<>>) EXCEPT !.href = <<>>]
         ELSE IF Exists(s.rd, s.rf, cp) \/ ~IsDir(s.rd, ParentOf(cp))
              THEN [Req(s, "GET_UPLOAD", cp, 409, <<>>) EXCEPT !.href = <<>>]
         ELSE [Req(s, "GET_UPLOAD", cp, 200, <<>>) EXCEPT !.href = cp])

\* PUT <uploadHref> with a body: the body becomes the file's content
RemotePutHref(s, href, body) ==
    IF Faulty(s) THEN Req(s, "PUT_HREF", href, 503, body)
    ELSE Req([s EXCEPT !.rf = (href :> body) @@ @], "PUT_HREF", href, 201, body)

\* POST <endpoint>/upload?path=P&url=U: the remote fetches U into P
RemotePostUpload(s, p, url) ==
    Bind(Canon(p), LAMBDA cp :
         IF Faulty(s) THEN Req(s, "POST_UPLOAD", cp, 503, url)
         ELSE IF Exists(s.rd, s.rf, cp) \/ ~IsDir(s.rd, ParentOf(cp))
              THEN Req(s, "POST_UPLOAD", cp, 409, url)
         ELSE Req([s EXCEPT !.rf = (cp :> UrlContent(url)) @@ @], "POST_UPLOAD", cp, 202, url))

\* requests_toolbelt's MultipartEncoder(fields={'file': (name, f, type)}): the
\* file's bytes inside one multipart/form-data part
MultipartEncoder(content) == <<45, 45>> \o content \o <<13, 10, 45, 45>>

\* _check_folder_exist from line 342 on: the target, which has a "/", was
\* not found
CheckSegments(test, folder_name, target_folderpath) ==
    Bind(Split(target_folderpath, Slash), LAMBDA folder :
    Bind(RemoteGet(test, StrParam(folder[1])), LAMBDA test2 :
         IF test2.st = 404
         THEN CreateFolder(CreateFolder(test2, folder[1], ListParam(folder)),
                           folder[Len(folder)], StrParam(target_folderpath))
         ELSE CreateFolder(test2, folder_name, StrParam(target_folderpath))))

\* upload._check_folder_exist(folder_name, target_folderpath)
CheckFolderExist(s, folder_name, target_folderpath) ==
    Bind(RemoteGet(s, StrParam(target_folderpath)), LAMBDA test :
         IF Contains(target_folderpath, Slash)
         THEN IF test.st = 404
              THEN CheckSegments(test, folder_name, target_folderpath)
              ELSE test
         ELSE CreateFolder(test, folder_name, StrParam(target_folderpath)))

Raise(s, exc) == Return(s, [k |-> "raise", exc |-> exc])

\* One file of upload._upload_folder's loop.  Only a skipped file is
\* reported: the message of a success is returned to upload, which drops it.
UploadFolderFile(s, folder_path, file) ==
    Bind(folder_path \o Slash \o file, LAMBDA full_path :
    Bind(RemoteGetUpload(s, full_path), LAMBDA url :
         IF url.href = <<>> THEN Say(url, "skipped", file)
         ELSE IF IsLocalDir(s.dl, full_path) THEN Raise(url, "OSError")
         ELSE RemotePutHref(url, url.href, ReadLocal(s.dl, full_path))))

RECURSIVE UploadFolderLoop(_, _, _)
UploadFolderLoop(s, folder_path, file_list) ==
    IF file_list = <<>> \/ s.ret # NoRet THEN s
    ELSE UploadFolderLoop(UploadFolderFile(s, folder_path, Head(file_list)),
                          folder_path, Tail(file_list))

\* upload._upload_folder(folder_path), file_list being what
\* os.listdir(folder_path) returns
UploadFolder(s, folder_path, file_list) ==
    UploadFolderLoop(s, folder_path, file_list)

\* upload._upload_file(file, targetpath, fullpath): the upload URL is
\* requested once to be shown and once to be used
UploadFile(s, file, targetpath, fullpath) ==
    Bind(targetpath \o Slash \o file, LAMBDA path :
    Bind(RemoteGetUpload(RemoteGetUpload(s, path), path), LAMBDA url :
         IF url.href = <<>> THEN Say(url, "skipped", file)
         ELSE Say(RemotePutHref(url, url.href, MultipartEncoder(ReadLocal(s.dl, fullpath))),
                  "uploaded", file)))

\* str(n) for n >= 0, and n in two or four digits
RECURSIVE IntStr(_)
IntStr(n) ==
    IF n < 10 THEN <<(<<"0", "1", "2", "3", "4", "5", "6", "7", "8", "9">>)[n + 1]>>
    ELSE IntStr(n \div 10) \o IntStr(n % 10)

RECURSIVE ZeroPad(_, _)
ZeroPad(str, width) == IF Len(str) >= width THEN str ELSE ZeroPad(<<"0">> \o str, width)

\* str(datetime.fromtimestamp(date).date()) for date >= 0, the local time
\* zone being UTC: the civil date of day date // 86400 as YYYY-MM-DD
DateStr(date) ==
    LET z == (date \div 86400) + 719468
        era == z \div 146097
        doe == z - era * 146097
        yoe == (doe - doe \div 1460 + doe \div 36524 - doe \div 146096) \div 365
        doy == doe - (365 * yoe + yoe \div 4 - yoe \div 100)
        mp == (5 * doy + 2) \div 153
        d == doy - (153 * mp + 2) \div 5 + 1
        m == IF mp < 10 THEN mp + 3 ELSE mp - 9
        y == yoe + era * 400 + (IF m <= 2 THEN 1 ELSE 0)
    IN ZeroPad(IntStr(y), 4) \o <<"-">> \o ZeroPad(IntStr(m), 2) \o <<"-">>
       \o ZeroPad(IntStr(d), 2)

\* upload._upload_url(url, likes, date)
UploadUrl(s, target_folderpath, url, likes, date) ==
    RemotePostUpload(s, target_folderpath \o Slash \o IntStr(likes) \o <<"_">>
                        \o DateStr(date) \o <<".", "j", "p", "g">>, url)

RECURSIVE UploadUrlLoop(_, _, _)
UploadUrlLoop(s, target_folderpath, list) ==
    IF list = <<>> THEN s
    ELSE UploadUrlLoop(UploadUrl(s, target_folderpath, Head(list).url, Head(list).likes,
                                 Head(list).date),
                       target_folderpath, Tail(list))

DotZip == <<".", "z", "i", "p">>

\* The index of the first entry whose name up to its first "." is name; 0 if none
FirstNamed(entries, name) ==
    LET hits == {i \in 1..Len(entries) : SplitFirst(entries[i].name, <<".">>) = name}
    IN IF hits = {} THEN 0 ELSE CHOOSE i \in hits : \A j \in hits : i <= j

None == [k |-> "None"]

\* os.name of the machine the program runs on
Platforms == {"nt", "posix"}

\* The folder of a catalogue entry: entry.path.split("/" + entry.name)[0]
FolderOf(entry) == SplitFirst(entry.path, Slash \o entry.name)

\* upload(object) for a local file with ".zip" in its name: into the folder
\* of the first file, else of the first folder, of that name
UploadZip(s, object) ==
    Bind(SplitFirst(object.name, DotZip), LAMBDA name :
    Bind(FirstNamed(s.af, name), LAMBDA i :
    Bind(FirstNamed(s.ad, name), LAMBDA j :
         IF i = 0 /\ j = 0 THEN s
         ELSE Return(UploadFile(s, object.name,
                                FolderOf(IF i # 0 THEN s.af[i] ELSE s.ad[j]),
                                object.realpath),
                     None))))

\* upload(list of (url, likes, date), album)
UploadUrls(s, folder_name, target_folderpath, list) ==
    UploadUrlLoop(CheckFolderExist(s, folder_name, target_folderpath),
                  target_folderpath, list)

\* upload(object) for a local file without ".zip" in its name
UploadPlain(s, object) ==
    Bind(SplitFirst(object.realpath, Slash \o object.name), LAMBDA target_folderpath :
         UploadFile(CheckFolderExist(s, target_folderpath, target_folderpath),
                    object.name, target_folderpath, object.realpath))

\* len(object): of the pair (list, album), or of a local name
ObjectLen(object) == IF object.shape = "urls" THEN 2 ELSE Len(object.name)

Photos == <<"p", "h", "o", "t", "o", "s">>

\* upload(object) for a local name of two characters, which is taken for a
\* pair: the folder photos/<second character> is ensured, and unpacking the
\* first character into (url, likes, date) raises
UploadPair(s, object) ==
    Raise(CheckFolderExist(s, <<object.name[2]>>, Photos \o Slash \o <<object.name[2]>>),
          "ValueError")

\* upload(object), up to its closing reload.  object is the pair
\* (list of (url, likes, date), album) or a local name with the path it was
\* found at below the working directory (realpath) and what os.listdir
\* returns of that path (listing).  The found path is cut at ".\\",
\* which os.path.join puts after "." only where the separator is "\\"
UploadBody(s, object, os) ==
    IF ObjectLen(object) = 2
    THEN IF object.shape = "urls"
         THEN UploadUrls(s, object.album, Photos \o Slash \o object.album, object.list)
         ELSE UploadPair(s, object)
    ELSE IF os # "nt" \/ object.realpath = NotFound THEN Raise(s, "IndexError")
    ELSE IF IsLocalDir(s.dl, object.realpath)
    THEN UploadFolder(CheckFolderExist(s, object.name, object.realpath), object.realpath,
                      object.listing)
    ELSE IF Contains(object.name, DotZip) THEN UploadZip(s, object)
    ELSE UploadPlain(s, object)

Upload(s, object, os) ==
    Bind(UploadBody(s, object, os), LAMBDA done :
         IF done.ret # NoRet THEN done ELSE Return(Reload(done), None))

----------------------------------------------------------------------------
(* download                                                                *)

\* os.path.join(a, b) and os.path.abspath(p), relative to the working directory
PathJoin(a, b) ==
    IF StartsWith(b, Slash) THEN b
    ELSE IF a = <<>> \/ a[Len(a)] = "/" THEN a \o b
    ELSE a \o Slash \o b

RECURSIVE AbsPath(_)
AbsPath(p) == IF p # <<>> /\ p[Len(p)] = "/" THEN AbsPath(SubSeq(p, 1, Len(p) - 1)) ELSE p

DownloadsDir == <<"d", "o", "w", "n", "l", "o", "a", "d", "s">>

\* What the remote sends for a failed request instead of a file's bytes
ErrorBody == <<-1>>

\* GET <link>: the bytes of the file the link was issued for
RemoteGetFile(s, link) ==
    IF Faulty(s) THEN [Req(s, "GET_FILE", link, 503, <<>>) EXCEPT !.content = ErrorBody]
    ELSE IF ~IsFile(s.rf, link)
         THEN [Req(s, "GET_FILE", link, 404, <<>>) EXCEPT !.content = ErrorBody]
    ELSE [Req(s, "GET_FILE", link, 200, <<>>) EXCEPT !.content = s.rf[link]]

\* The local disk under downloads/ before anything was downloaded: dirs is
\* the set of directories, files gives each file's content
NoLocal == [dirs |-> {}, files |-> <<>>]

\* The directories above a local path
Prefixes(path) == {SubSeq(path, 1, i - 1) : i \in {i \in 1..Len(path) : path[i] = "/"}}

\* os.makedirs(target_folder, exist_ok=True): the directory and those above
\* it are made; a file at the path raises FileExistsError, a file above it
\* NotADirectoryError (the name it has where paths are written with "/")
MakeDirs(s, target_folder) ==
    IF \E d \in Prefixes(target_folder) : d \in DOMAIN s.dl.files
    THEN Raise(s, "NotADirectoryError")
    ELSE IF target_folder \in DOMAIN s.dl.files THEN Raise(s, "FileExistsError")
    ELSE [s EXCEPT !.dl.dirs = @ \cup Prefixes(target_folder) \cup {target_folder}]

\* with open(path, 'wb') as file: file.write(content); a directory at the
\* path raises IsADirectoryError
WriteLocal(s, path, content) ==
    IF path \in s.dl.dirs THEN Raise(s, "IsADirectoryError")
    ELSE [s EXCEPT !.dl.files = (path :> content) @@ @]

\* with open(os.path.join(target_folder, name), 'wb'): the bytes of link
Fetch(s, link, target_folder, name) ==
    Bind(RemoteGetFile(s, link), LAMBDA got :
         WriteLocal(got, PathJoin(target_folder, name), got.content))

\* download(item) and the loop over the listing of a folder
RECURSIVE Download(_, _)
RECURSIVE DownloadItems(_, _, _)

\* self.download(new_item) inside the loop: its return value is dropped
DownloadSub(s, new_item) ==
    Bind(Download(s, new_item), LAMBDA sub :
         IF sub.ret.k = "raise" THEN sub ELSE Return(sub, NoRet))

DownloadItems(s, items, target_folder) ==
    IF items = <<>> \/ s.ret # NoRet THEN s
    ELSE Bind(Head(items), LAMBDA new_item :
         DownloadItems(IF new_item.type = "dir" THEN DownloadSub(s, new_item)
                       ELSE Fetch(s, new_item.file, target_folder, new_item.name),
                       Tail(items), target_folder))

\* download from line 235 on: the metadata query, then the listing's items
\* or (no listing in the response) the file itself
DownloadListed(first, item, target_folder) ==
    Bind(RemoteGet(first, StrParam(item.path)), LAMBDA response :
    Bind(Canon(item.path), LAMBDA cp :
         IF response.st # 200 THEN Raise(response, "KeyError")
         ELSE IF IsDir(response.rd, cp)
         THEN Bind(DownloadItems(response, Items(response.rd, response.rf, cp),
                                 target_folder),
                   LAMBDA done :
                   IF done.ret # NoRet THEN done
                   ELSE Return(done, [k |-> "folder_downloaded"]))
         ELSE Bind(Fetch(response, cp, target_folder, BaseName(cp)), LAMBDA done :
                   IF done.ret # NoRet THEN done
                   ELSE Return(done, [k |-> "file_downloaded"]))))

\* The local folder download(item) writes into
TargetFolder(item) ==
    IF item.type = "dir"
    THEN AbsPath(PathJoin(DownloadsDir, SplitLast(item.path, DiskPrefix)))
    ELSE AbsPath(PathJoin(DownloadsDir,
                          SplitFirst(SplitLast(item.path, DiskPrefix), item.name)))

\* A download that ends, as upload and delete do, with self.reload()
DownloadIntoReloading(made, item, target_folder) ==
    Bind(IF item.type = "dir" THEN made
         ELSE Fetch(made, item.link, target_folder, item.name), LAMBDA first :
         IF first.ret # NoRet THEN first
         ELSE Reload(DownloadListed(first, item, target_folder)))

\* download(item) from line 230 on, the target folder made: the file of a
\* file entry is fetched first
DownloadInto(made, item, target_folder) ==
    Bind(IF item.type = "dir" THEN made
         ELSE Fetch(made, item.link, target_folder, item.name), LAMBDA first :
         IF first.ret # NoRet THEN first
         ELSE DownloadListed(first, item, target_folder))

Download(s, item) ==
    Bind(TargetFolder(item), LAMBDA target_folder :
    Bind(MakeDirs(s, target_folder), LAMBDA made :
         IF made.ret = NoRet THEN DownloadInto(made, item, target_folder)
         ELSE IF item.type = "dir" /\ made.ret.exc = "FileExistsError"
              THEN Return(s, [k |-> "exists_locally"])
         ELSE made))

----------------------------------------------------------------------------
(* zip_file                                                                *)

\* os.path.splitext(name)[0]: the name without its last extension; dots the
\* name begins with start none
SplitExt(name) ==
    Bind({i \in 2..Len(name) : name[i] = "." /\ \E j \in 1..(i - 1) : name[j] # "."},
         LAMBDA dots :
         IF dots = {} THEN name
         ELSE SubSeq(name, 1, (CHOOSE i \in dots : \A j \in dots : j <= i) - 1))

\* The name ZipFile.write stores arcname under: os.path.normpath of it, the
\* separators it begins with taken off; <<>> when nothing is left, which
\* write does not survive
ArcName(arcname) ==
    IF arcname = <<>> THEN <<".">>
    ELSE Bind({i \in 1..Len(arcname) : arcname[i] # "/"}, LAMBDA kept :
         IF kept = {} THEN <<>>
         ELSE SubSeq(arcname, CHOOSE i \in kept : \A j \in kept : i <= j,
                     CHOOSE i \in kept : \A j \in kept : j <= i))

\* root.split(base_path)[1] of a directory os.walk comes to below downloads/
DirName(root) == Split(root, DownloadsDir)[2]

\* The members of an archive: how many times each (arcname, data) was
\* written, whatever the order the file system made os.walk write them in.
\* written: the directories and files written, each with its member
Members(written) ==
    [m \in {w.member : w \in written} |-> Cardinality({w \in written : w.member = m})]

\* What the walk of downloads/<path> writes (lines 476-481): every directory
\* from that one down, as dir_name + "/" without data, and every file in
\* them; nothing when downloads/<path> is no directory
ZipWalk(local, top) ==
    Bind({d \in local.dirs : d = top \/ StartsWith(d, top \o Slash)}, LAMBDA roots :
         {[from |-> d, member |-> [arcname |-> ArcName(DirName(d)) \o Slash, data |-> <<>>]] :
             d \in roots}
         \cup
         {[from |-> f,
           member |-> [arcname |-> ArcName(PathJoin(DirName(LocalParent(f)), LocalName(f))),
                       data |-> local.files[f]]] :
             f \in {f \in DOMAIN local.files : LocalParent(f) \in roots}})

\* str.capitalize() of a name in small letters
Capitalize(str) ==
    Bind(<<"A", "B", "C", "D", "E", "F", "G", "H", "I", "J", "K", "L", "M", "N", "O", "P",
           "Q", "R", "S", "T", "U", "V", "W", "X", "Y", "Z">>, LAMBDA upper :
         IF str # <<>> /\ Rank[str[1]] >= Rank["a"]
         THEN <<upper[Rank[str[1]] - Rank["a"] + 1]>> \o Tail(str)
         ELSE str)

\* zip_file(item), object_full_path being what its search of downloads/
\* ended with.  zipfile.ZipFile(downloads/<name>.zip, "w") needs downloads/;
\* an exception inside the with block leaves the archive with the members
\* written before it and no sidecar: TypeError for a name with "." that the
\* search did not find, IndexError at the first member for a folder whose
\* dir_name is "/", which is so for every path that begins with downloads.
\* Opening the archive empties a file that was at its path, so a file found
\* there is read without data
ZipFile(s, item, object_full_path) ==
    Bind(PathJoin(DownloadsDir, SplitExt(item.name)) \o DotZip, LAMBDA filename :
    Bind(PathJoin(DownloadsDir, Split(item.path, DiskPrefix)[2]), LAMBDA top :
         IF DownloadsDir \notin s.dl.dirs THEN Raise(s, "FileNotFoundError")
         ELSE IF filename \in s.dl.dirs THEN Raise(s, "IsADirectoryError")
         ELSE IF Contains(item.name, <<".">>) /\ object_full_path = NotFound
         THEN Raise(WriteLocal(s, filename, [members |-> <<>>]), "TypeError")
         ELSE IF ~Contains(item.name, <<".">>) /\ top \in s.dl.dirs
                 /\ ArcName(DirName(top)) = <<>>
         THEN Raise(WriteLocal(s, filename, [members |-> <<>>]), "IndexError")
         ELSE Bind(WriteLocal(WriteLocal(s, filename,
                       [members |-> Members(
                           IF Contains(item.name, <<".">>)
                           THEN {[from |-> object_full_path,
                                  member |->
                                      IF object_full_path \in s.dl.dirs
                                      THEN [arcname |-> ArcName(item.name) \o Slash,
                                            data |-> <<>>]
                                      ELSE [arcname |-> ArcName(item.name),
                                            data |-> IF object_full_path = filename
                                                     THEN <<>>
                                                     ELSE s.dl.files[object_full_path]]]}
                           ELSE ZipWalk(s.dl, top))]),
                       filename \o <<"_", "i", "n", "f", "o", ".", "j", "s", "o", "n">>,
                       [file_name |-> item.name, size |-> item.size, path |-> item.path]),
                   LAMBDA done :
                   IF done.ret # NoRet THEN done
                   ELSE Return(Say(done, "archived", Capitalize(LocalName(filename))),
                               [k |-> "archive", name |-> LocalName(filename)]))))

----------------------------------------------------------------------------
(* The session                                                             *)

MaxFault == 2      \* a remote failure may hit any of a call's first MaxFault requests
MaxLag == 1        \* existence queries that still find a folder being deleted
MaxBatch == 2      \* the longest list given to delete

RECURSIVE JoinStrs(_, _)
JoinStrs(parts, sep) ==
    IF Len(parts) = 1 THEN parts[1] ELSE parts[1] \o sep \o JoinStrs(Tail(parts), sep)

Path(segments) == DiskPrefix \o JoinStrs(segments, Slash)

\* The remote trees a session may start on: every part, closed under parents,
\* of a tree of depth 3
FullFiles ==
    (Path(<< <<"a">>, <<"f">> >>) :> <<8, 8>>) @@
    (Path(<< <<"a">>, <<"b">>, <<"g">> >>) :> <<9, 9, 9>>) @@
    (Path(<< <<"a">>, <<"b">>, <<"c">>, <<"f">> >>) :> <<1, 0, 1, 0>>)

InitTrees ==
    {t \in {[rd |-> D, rf |-> [q \in F |-> FullFiles[q]]] :
               D \in SUBSET {Path(<< <<"a">> >>), Path(<< <<"a">>, <<"b">> >>),
                              Path(<< <<"a">>, <<"b">>, <<"c">> >>)},
               F \in SUBSET DOMAIN FullFiles} :
        \A q \in t.rd \cup DOMAIN t.rf : IsDir(t.rd, ParentOf(q))}

Faults == {{}} \cup {{n} : n \in 1..MaxFault}

Idle == [op |-> "none"]

\* YaDisk(token): the catalogue is walked once
Init ==
    /\ \E t \in InitTrees :
          /\ rdirs = t.rd
          /\ rfiles = t.rf
          /\ LET w == ParseCatalogues(t.rd, t.rf, Slash, <<>>, <<>>)
             IN all_files = w.files /\ all_folders = w.folders
    /\ downloads = NoLocal
    /\ call = Idle
    /\ prev = Idle
    /\ log = <<>>
    /\ out = <<>>
    /\ ret = None

\* The call c ends in state s.  Of the remote's faults and lag, c keeps what
\* the call met.  prev keeps the call before it when c followed it directly.
Commit(s, c) ==
    /\ rdirs' = s.rd
    /\ rfiles' = s.rf
    /\ all_files' = s.af
    /\ all_folders' = s.ad
    /\ downloads' = s.dl
    /\ call' = [c EXCEPT !.flt = @ \cap 1..s.n,
                          !.lag = IF \E i \in 1..Len(s.log) : s.log[i].status = 202
                                  THEN @ ELSE 0]
    /\ prev' = IF call = Idle THEN Idle ELSE [call |-> call, out |-> out, log |-> log]
    /\ log' = s.log
    /\ out' = s.out
    /\ ret' = IF s.ret = NoRet THEN None ELSE s.ret

\* The caller is done with the last call's result; any call may follow
Discard ==
    /\ call # Idle
    /\ call' = Idle /\ prev' = Idle /\ log' = <<>> /\ out' = <<>> /\ ret' = None
    /\ UNCHANGED <<rdirs, rfiles, all_files, all_folders, downloads>>

\* reload(), on its own or right after a reload or a delete
DoReload ==
    /\ call = Idle \/ (call.op \in {"reload", "delete"} /\ prev = Idle)
    /\ Commit(Reload(CallState({}, "first", 0)), [op |-> "reload", flt |-> {}, lag |-> 0])


\* create_folder(name, path), on its own or right after another create_folder
DoCreateFolder ==
    /\ call = Idle \/ (call.op = "create_folder" /\ prev = Idle)
    /\ \E path \in {<<"a">>, <<"a", "/", "b">>, <<"a", "/", "b", "/", "c">>,
                     <<"a", "/", "f">>},
          flt \in Faults :
        Commit(CreateFolder(CallState(flt, "first", 0), SplitLast(path, Slash), StrParam(path)),
               [op |-> "create_folder", path |-> path, flt |-> flt, lag |-> 0])

Entries == {all_files[i] : i \in 1..Len(all_files)} \cup
           {all_folders[i] : i \in 1..Len(all_folders)}

\* The lists of 2..n distinct entries
EntryLists(n) ==
    {l \in UNION {[1..m -> Entries] : m \in 2..n} : \A i, j \in DOMAIN l : i # j => l[i] # l[j]}

DoDelete ==
    /\ call = Idle
    /\ \E obj \in Entries, flt \in Faults, lag \in 0..MaxLag, permanent \in BOOLEAN :
        Commit(Delete(CallState(flt, "first", lag), obj, FALSE, permanent),
               [op |-> "delete", objects |-> <<obj>>, list |-> FALSE, flt |-> flt,
                lag |-> lag])

DoDeleteList ==
    /\ call = Idle
    /\ \E objects \in EntryLists(MaxBatch), flt \in Faults, lag \in 0..MaxLag,
          permanent \in BOOLEAN :
        Commit(Delete(CallState(flt, "first", lag), objects, TRUE, permanent),
               [op |-> "delete", objects |-> objects, list |-> TRUE, flt |-> flt,
                lag |-> lag])

\* What upload is given: the name of a local directory or file (fa is in no
\* directory), or a list of (url, likes, date) with an album name
Photo1 == [url |-> <<"x">>, likes |-> 1, date |-> 0]

UploadObjects ==
    {[shape |-> "local", name |-> <<"b">>],
     [shape |-> "local", name |-> <<"f", "a">>],
     [shape |-> "local", name |-> <<"f">>],
     [shape |-> "local", name |-> <<"f", ".", "z", "i", "p">>],
     [shape |-> "urls",
      list |-> <<Photo1, [url |-> <<"y", "y">>, likes |-> 12, date |-> 86400]>>,
      album |-> <<"a", "l">>]}

\* The names among them of local files without ".zip"
FileObjects ==
    {o \in UploadObjects : /\ o.shape = "local" /\ ~Contains(o.name, DotZip)
                           /\ \A p \in Found(NoLocal, o.name) : p \in DOMAIN LocalFiles}

\* The object as upload goes on with it: a local name with a path
\* (realpath) it may be found at and a listing of that path
Located(o) ==
    IF o.shape = "urls" THEN {o}
    ELSE UNION {{[shape |-> "local", name |-> o.name, realpath |-> p, listing |-> l] :
                    l \in Listings(downloads, p)} :
                p \in Found(downloads, o.name)}

\* upload(object) for one of objects, the remote failing as in faults and
\* reading a repeated parameter as in dups
UploadCall(objects, faults, dups) ==
    \E o \in objects, os \in Platforms, flt \in faults, dup \in dups :
        \E object \in Located(o) :
            Commit(Upload(CallState(flt, dup, 0), object, os),
                   [op |-> "upload", object |-> object, os |-> os, flt |-> flt, lag |-> 0])

DoUpload == call = Idle /\ UploadCall(UploadObjects, Faults, {"first", "last", "reject"})

\* upload(file) of a local file
DoUploadFile == call = Idle /\ UploadCall(FileObjects, Faults, {"first"})

\* download(item) of a catalogue entry, on its own or right after an upload
DoDownload ==
    /\ call = Idle \/ (call.op = "upload" /\ prev = Idle)
    /\ \E item \in Entries, flt \in Faults :
        Commit(Download(CallState(flt, "first", 0), item),
               [op |-> "download", item |-> item, flt |-> flt, lag |-> 0])

\* zip_file(item) of a catalogue entry; the search of downloads/ for the
\* entry's name (lines 461-469) may end with any of object_full_path
DoZipFile ==
    /\ call = Idle
    /\ \E item \in Entries :
        \E object_full_path \in LastNamed((downloads.dirs \cup DOMAIN downloads.files)
                                             \ {DownloadsDir}, item.name) :
            Commit(ZipFile(CallState({}, "first", 0), item, object_full_path),
                   [op |-> "zip_file", item |-> item, found |-> object_full_path,
                    flt |-> {}, lag |-> 0])

Next == Discard \/ DoReload \/ DoCreateFolder \/ DoDelete \/ DoDeleteList

Spec == Init /\ [][Next]_vars

NextUpload == Discard \/ DoUpload

\* YaDisk(token) on a disk that holds folders only; files come by upload
InitUpload == Init /\ rfiles = <<>>

SpecUpload == InitUpload /\ [][NextUpload]_vars

NextTransfer == Discard \/ DoUploadFile \/ DoDownload \/ DoZipFile

\* YaDisk(token) on a disk that has no folder inside another
InitTransfer == Init /\ rdirs \subseteq {Path(<< <<"a">> >>)}

SpecTransfer == InitTransfer /\ [][NextTransfer]_vars

----------------------------------------------------------------------------
(* Properties                                                              *)

RECURSIVE SumSizes(_)
SumSizes(entries) == IF entries = <<>> THEN 0 ELSE Head(entries).size + SumSizes(Tail(entries))

\* The file entries below path p, in order
FilesBelow(files, p) == SelectSeq(files, LAMBDA e : Below(e.path, p))

RECURSIVE SumContents(_, _)
SumContents(rf, S) ==
    IF S = {} THEN 0
    ELSE LET q == CHOOSE x \in S : TRUE IN Len(rf[q]) + SumContents(rf, S \ {q})

\* Every folder entry's size is the sum of the sizes of the file entries below it
Aggregated(files, folders) ==
    \A i \in 1..Len(folders) :
        folders[i].size = SumSizes(FilesBelow(files, folders[i].path))

\* C1: after a catalogue walk every Folder entry's size is the sum of the sizes
\* of the File entries below its path, and the walk of the root returns the sum
\* of all file sizes of the tree.  Stated of the catalogue the session holds
\* and of the walk of the remote as it stands.
C1_SizeAggregation ==
    LET w == ParseCatalogues(rdirs, rfiles, Slash, <<>>, <<>>)
    IN /\ Aggregated(all_files, all_folders)
       /\ Aggregated(w.files, w.folders)
       /\ w.size = SumSizes(w.files)
       /\ w.size = SumContents(rfiles, DOMAIN rfiles)

\* A walked tree of depth 3: folder a holds a file, a/b a file, a/b/c a file
C1_Witness ==
    /\ Len(all_folders) = 3 /\ Len(all_files) = 3
    /\ \E i \in 1..Len(all_folders) :
          all_folders[i].path = Path(<< <<"a">> >>) /\ all_folders[i].size = 9

PathsOf(entries) == {entries[i].path : i \in 1..Len(entries)}

\* C2: after reload() the catalogue holds exactly one entry per remote file and
\* one per remote folder, whatever it held before.
C2_ReloadRebuilds ==
    call.op = "reload" =>
        /\ PathsOf(all_files) = DOMAIN rfiles
        /\ Len(all_files) = Cardinality(DOMAIN rfiles)
        /\ PathsOf(all_folders) = rdirs
        /\ Len(all_folders) = Cardinality(rdirs)

\* A second reload in a row, on a catalogue that was not empty
C2_Witness ==
    /\ call.op = "reload" /\ prev # Idle /\ prev.call.op = "reload"
    /\ Len(all_files) = 3 /\ Len(all_folders) = 3

\* A request that changed the remote tree
Mutation(e) ==
    \/ e.k = "PUT" /\ e.status = 201
    \/ e.k = "DELETE" /\ e.status < 300
    \/ e.k = "PUT_HREF" /\ e.status = 201
    \/ e.k = "POST_UPLOAD" /\ e.status = 202

Returned == ret.k # "raise"

\* C3: whenever create_folder, delete or upload changed the remote tree and
\* returns, a reload ran after the call's last mutation.
C3_RebuiltAfterMutation ==
    (call.op \in {"create_folder", "delete", "upload"} /\ Returned) =>
        \A i \in 1..Len(log) :
            Mutation(log[i]) => \E j \in (i + 1)..Len(log) : log[j].k = "RELOAD"

HasKind(l, k) == \E i \in 1..Len(l) : l[i].k = k

SecondCreate ==
    /\ call.op = "create_folder" /\ prev # Idle
    /\ prev.call.op = "create_folder" /\ prev.call.path = call.path

FoldersAt(cp) == {i \in 1..Len(all_folders) : all_folders[i].path = cp}

\* What C4 says of the second call
SecondCreateIsNoOp ==
    /\ ~HasKind(log, "PUT")
    /\ \E i \in 1..Len(log) : log[i].k = "GET" /\ log[i].status = 200
    /\ Len(out) = 1 /\ out[1].msg = "exists"
    /\ Cardinality(FoldersAt(Canon(call.path))) = 1

\* C4 as claimed: of two create_folder calls in a row with the same path, the
\* second finds the path (200), reports "already exists", issues no PUT, and
\* leaves exactly one Folder entry for the path.
C4_Original == SecondCreate => SecondCreateIsNoOp

\* C4, amended: the same, when the first call created the folder (201) or
\* found a folder at the path, and the remote answers the second call's
\* existence query.
C4_IdempotentCreate ==
    (/\ SecondCreate
     /\ 1 \notin call.flt
     /\ \/ prev.out[1].msg = "created"
        \/ prev.out[1].msg = "exists" /\ Canon(call.path) \in rdirs)
    => SecondCreateIsNoOp

\* A second call right after the call that created the folder
C4_Witness ==
    /\ SecondCreate /\ prev.out[1].msg = "created" /\ HasKind(prev.log, "PUT")
    /\ out[1].msg = "exists"

\* C5: delete returns its success message only after, for each object, an
\* existence query issued after the accepted delete request returned 404; the
\* object is then not found on the remote.
C5_DeleteThenPoll ==
    (call.op = "delete" /\ ret.k = "deleted") =>
        \A m \in 1..Len(call.objects) :
            LET cp == Canon(call.objects[m].path)
            IN /\ \E i, j \in 1..Len(log) :
                     /\ i < j
                     /\ log[i].k = "DELETE" /\ log[i].path = cp /\ log[i].status < 300
                     /\ log[j].k = "GET" /\ log[j].path = cp /\ log[j].status = 404
               /\ ~Exists(rdirs, rfiles, cp)

\* A folder with content deleted in the background: the first query still finds
\* it, a later one does not
C5_Witness ==
    /\ call.op = "delete" /\ ret.k = "deleted"
    /\ \E i, j \in 1..Len(log) :
          /\ i < j /\ log[i].k = "GET" /\ log[i].status = 200
          /\ log[j].k = "GET" /\ log[j].status = 404 /\ log[j].path = log[i].path

\* The positions of the delete requests in the log, in order
DeleteAt == SelectSeq([i \in 1..Len(log) |-> i], LAMBDA i : log[i].k = "DELETE")

\* C6: a list deletion takes the objects in list order, each delete request
\* only after the previous object's poll returned 404; at the first status
\* >= 300 it stops, issues nothing more, returns that status, and the objects
\* deleted before stay deleted.
C6_BatchDelete ==
    (call.op = "delete" /\ call.list) =>
        LET D == DeleteAt
            obj(m) == Canon(call.objects[m].path)
        IN /\ Len(D) <= Len(call.objects)
           /\ \A m \in 1..Len(D) : log[D[m]].path = obj(m)
           /\ \A m \in 1..(Len(D) - 1) :
                 /\ log[D[m]].status < 300
                 /\ log[D[m + 1] - 1].k = "GET"
                 /\ log[D[m + 1] - 1].path = obj(m)
                 /\ log[D[m + 1] - 1].status = 404
           /\ Len(D) >= 1
           /\ IF log[D[Len(D)]].status >= 300
              THEN /\ D[Len(D)] = Len(log)
                   /\ ret = [k |-> "error", status |-> log[Len(log)].status,
                             body |-> log[Len(log)].body]
                   /\ \A m \in 1..(Len(D) - 1) : ~Exists(rdirs, rfiles, obj(m))
              ELSE /\ Len(D) = Len(call.objects)
                   /\ ret.k = "deleted"

\* The first object was deleted and polled away, the second's request failed
C6_Witness ==
    /\ call.op = "delete" /\ call.list /\ ret.k = "error"
    /\ Len(DeleteAt) = 2
    /\ ~Exists(rdirs, rfiles, Canon(call.objects[1].path))

----------------------------------------------------------------------------
(* upload                                                                  *)

\* The requests that ask for an upload URL or send content
TransferKinds == {"GET_UPLOAD", "PUT_HREF", "POST_UPLOAD"}

\* Where download(item) is to put a remote file: downloads/<path below the root>
LocalCopy(path) == DownloadsDir \o Slash \o SplitLast(path, DiskPrefix)

\* The last call downloaded a file that the call right before it, an upload
\* of one local file, had put on the remote, and the remote answered every
\* request of both
RoundTrip ==
    /\ call.op = "download" /\ call.flt = {} /\ ret = [k |-> "file_downloaded"]
    /\ prev # Idle /\ prev.call.op = "upload" /\ prev.call.flt = {}
    /\ \E i \in 1..Len(prev.log) :
          /\ prev.log[i].k = "PUT_HREF" /\ prev.log[i].status = 201
          /\ prev.log[i].path = call.item.path

\* C7: a local file uploaded by upload (single-file shape) and then downloaded
\* by download is locally, byte for byte, the file that was uploaded
C7_RoundTrip ==
    RoundTrip =>
        /\ LocalCopy(call.item.path) \in DOMAIN downloads.files
        /\ downloads.files[LocalCopy(call.item.path)] =
              ReadLocal(downloads, prev.call.object.realpath)

\* The remote folder an upload transfers into
UploadTarget(object) ==
    IF object.shape = "urls" THEN Photos \o Slash \o object.album
    ELSE IF IsLocalDir(downloads, object.realpath) THEN object.realpath
    ELSE SplitFirst(object.realpath, Slash \o object.name)

\* An upload that went through the path resolver and asked for a transfer,
\* the remote answering every request
ResolvedUpload ==
    /\ call.op = "upload" /\ call.flt = {}
    /\ HasKind(log, "GET")
    /\ \E k \in TransferKinds : HasKind(log, k)

\* C8: when an upload asks for its first upload URL, the target folder exists
\* on the remote, whatever the depth of its path and whichever of its
\* ancestors were absent
C8_TargetFolderExists ==
    ResolvedUpload => IsDir(rdirs, Canon(UploadTarget(call.object)))

\* An existence query answered by neither 200 nor 404, or a create request
\* not answered by 201
FolderFailure(e) ==
    \/ e.k = "GET" /\ e.status \notin {200, 404}
    \/ e.k = "PUT" /\ e.status # 201

\* C9: after a failed existence query or create request, an upload asks for
\* no upload URL and sends no content
C9_FailureAborts ==
    call.op = "upload" =>
        \A i \in 1..Len(log) : FolderFailure(log[i]) =>
            \A j \in (i + 1)..Len(log) : log[j].k \notin TransferKinds

\* The names of the listing of dir after its i-th that are local files
FilesAfter(dir, listing, i) ==
    {listing[j] : j \in {j \in (i + 1)..Len(listing) :
                             ~IsLocalDir(downloads, dir \o Slash \o listing[j])}}

\* The requests of log whose response upload reads the href from: in a
\* directory upload every upload-URL request; in a single-file upload the
\* second of the two, the first being only shown
HrefRequests(l, object) ==
    LET asked == {i \in 1..Len(l) : l[i].k = "GET_UPLOAD"}
    IN IF IsLocalDir(downloads, object.realpath) THEN asked
       ELSE {i \in asked : \E j \in asked : j < i}

\* C10: a file whose upload-URL response has no href gets no content and
\* keeps its remote content; a directory upload goes on to ask an upload URL
\* for every file listed after it, a single-file upload ends without an error
C10_CollisionSkips ==
    [][(call = Idle /\ call'.op = "upload" /\ call'.object.shape = "local") =>
         \A i \in HrefRequests(log', call'.object) : log'[i].status # 200 =>
            LET p == log'[i].path
                dir == call'.object.realpath
                listing == call'.object.listing
            IN /\ \A j \in 1..Len(log') : ~(log'[j].k = "PUT_HREF" /\ log'[j].path = p)
               /\ (p \in DOMAIN rfiles) = (p \in DOMAIN rfiles')
               /\ p \in DOMAIN rfiles => rfiles'[p] = rfiles[p]
               /\ IF IsLocalDir(downloads, dir)
                  THEN \A n \in 1..Len(listing) :
                         p = Canon(dir \o Slash \o listing[n]) =>
                            \A f \in FilesAfter(dir, listing, n) :
                               \E j \in 1..Len(log') :
                                  /\ log'[j].k = "GET_UPLOAD"
                                  /\ log'[j].path = Canon(dir \o Slash \o f)
                  ELSE ret' = None
    ]_vars

\* A directory upload on a machine where upload finds local paths, the
\* remote answering every request
DirUpload ==
    /\ call.op = "upload" /\ call.object.shape = "local" /\ call.os = "nt"
    /\ IsLocalDir(downloads, call.object.realpath) /\ call.flt = {}

\* The remote paths of the files, subdirectories left out, that the local
\* directory dir lists
ChildFiles(dir, listing) ==
    {Canon(dir \o Slash \o listing[n]) :
        n \in {n \in 1..Len(listing) : ~IsLocalDir(downloads, dir \o Slash \o listing[n])}}

\* C11: a directory upload asks an upload URL and sends content for the
\* files the directory lists and for nothing else (no subdirectory, nothing
\* below one), and a subdirectory keeps no listed file from being asked for
C11_NonRecursive ==
    DirUpload =>
        /\ \A i \in 1..Len(log) :
              log[i].k \in {"GET_UPLOAD", "PUT_HREF"} =>
                 log[i].path \in ChildFiles(call.object.realpath, call.object.listing)
        /\ \A p \in ChildFiles(call.object.realpath, call.object.listing) :
              \E i \in 1..Len(log) : log[i].k = "GET_UPLOAD" /\ log[i].path = p
        /\ ret = None

----------------------------------------------------------------------------
(* top10                                                                   *)

\* round(x, 0) for x = num / den, den > 0: to the nearest integer, a half to
\* the even one
RoundHalfEven(num, den) ==
    Bind(num \div den, LAMBDA q :
    Bind(2 * (num % den), LAMBDA r2 :
         IF r2 > den \/ (r2 = den /\ q % 2 = 1) THEN q + 1 ELSE q))

\* YaDisk._size(item): the size in KB, or above 1000 KB in hundredths of MB,
\* above 100000 KB in hundredths of GB
Size(item) ==
    Bind(RoundHalfEven(item.size, 1024), LAMBDA size :
         IF size > 100000
         THEN [unit |-> "GB", n |-> RoundHalfEven(size * 100, 1024 * 1024)]
         ELSE IF 100000 > size /\ size > 1000
         THEN [unit |-> "MB", n |-> RoundHalfEven(size * 100, 1024)]
         ELSE [unit |-> "KB", n |-> size])

\* The insertion that puts an entry before the entries of its own size
InsertBeforeEqual(sorted, obj) ==
    Bind(Cardinality({i \in 1..Len(sorted) : sorted[i].size > obj.size}), LAMBDA n :
         SubSeq(sorted, 1, n) \o <<obj>> \o SubSeq(sorted, n + 1, Len(sorted)))

\* sorted(..., key=size, reverse=True), one insertion: obj goes after the
\* entries that are not smaller (the sort is stable)
InsertBySize(sorted, obj) ==
    Bind(Cardinality({i \in 1..Len(sorted) : sorted[i].size >= obj.size}), LAMBDA n :
         SubSeq(sorted, 1, n) \o <<obj>> \o SubSeq(sorted, n + 1, Len(sorted)))

RECURSIVE SortedBySize(_, _)
SortedBySize(collection, sorted) ==
    IF collection = <<>> THEN sorted
    ELSE SortedBySize(Tail(collection), InsertBySize(sorted, Head(collection)))

\* The lines top10 prints: f'{num}. {i}, {self._size(i)}', i shown by its name
Top10Lines(top10) ==
    [num \in 1..Len(top10) |->
        [msg |-> "line", num |-> num, name |-> top10[num].name, size |-> Size(top10[num])]]

\* top10(obj_type)
Top10(s, obj_type) ==
    IF obj_type \notin {"file", "folder"}
    THEN Return(Say(s, "doc", <<>>), None)
    ELSE Bind(SortedBySize(IF obj_type = "file" THEN s.af ELSE s.ad, <<>>), LAMBDA sorted :
         Return([s EXCEPT !.out = @ \o Top10Lines(SubSeq(sorted, 1,
                                                   IF Len(sorted) < 10 THEN Len(sorted) ELSE 10))],
                None))

MaxEntries == 11   \* the most folders (and files) of the disk top10 is called on

\* The sizes of the files of that disk

\* A disk of Len(sizes) folders d01, d02, ... at the root, the i-th holding
\* one file fNN of sizes[i] bytes
Numbered(letter, i) == <<letter>> \o ZeroPad(IntStr(i), 2)

RECURSIVE FlatFiles(_, _)
FlatFiles(sizes, n) ==
    IF n = 0 THEN <<>>
    ELSE (Path(<<Numbered("d", n), Numbered("f", n)>>) :> [b \in 1..sizes[n] |-> 0])
         @@ FlatFiles(sizes, n - 1)

FlatTree(sizes) ==
    [rd |-> {Path(<<Numbered("d", i)>>) : i \in 1..Len(sizes)},
     rf |-> FlatFiles(sizes, Len(sizes))]

\* YaDisk(token) on such a disk
InitTop10 ==
    /\ \E n \in 0..MaxEntries : \E sizes \in [1..n -> {1, 2}] :
          \E tree \in {FlatTree(sizes)} :
             \E w \in {ParseCatalogues(tree.rd, tree.rf, Slash, <<>>, <<>>)} :
                /\ rdirs = tree.rd
                /\ rfiles = tree.rf
                /\ all_files = w.files
                /\ all_folders = w.folders
    /\ downloads = NoLocal
    /\ call = Idle
    /\ prev = Idle
    /\ log = <<>>
    /\ out = <<>>
    /\ ret = None

DoTop10 ==
    /\ call = Idle
    /\ \E obj_type \in {"file", "folder", "files"} :
        Commit(Top10(CallState({}, "first", 0), obj_type),
               [op |-> "top10", obj_type |-> obj_type, flt |-> {}, lag |-> 0])

NextTop10 == Discard \/ DoTop10

SpecTop10 == InitTop10 /\ [][NextTop10]_vars

\* The collection a call of top10 was about, and where a printed name is in it
Collection == IF call.obj_type = "file" THEN all_files ELSE all_folders

IndexOf(name) == CHOOSE i \in 1..Len(Collection) : Collection[i].name = name

\* C12: top10 prints min(10, size of the collection) entries of the collection,
\* by size descending, none smaller than an entry it leaves out, and entries
\* of one size in the order the catalogue has them
C12_Top10 ==
    (call.op = "top10" /\ call.obj_type \in {"file", "folder"}) =>
        /\ Len(out) = IF Len(Collection) < 10 THEN Len(Collection) ELSE 10
        /\ \A n \in 1..Len(out) :
              /\ out[n].num = n
              /\ \E i \in 1..Len(Collection) : Collection[i].name = out[n].name
        /\ \A n, m \in 1..Len(out) : n < m =>
              /\ out[n].name # out[m].name
              /\ Collection[IndexOf(out[n].name)].size >= Collection[IndexOf(out[m].name)].size
              /\ Collection[IndexOf(out[n].name)].size = Collection[IndexOf(out[m].name)].size
                    => IndexOf(out[n].name) < IndexOf(out[m].name)
        /\ \A n \in 1..Len(out), i \in 1..Len(Collection) :
              (\A m \in 1..Len(out) : out[m].name # Collection[i].name) =>
                 Collection[IndexOf(out[n].name)].size >= Collection[i].size
        /\ ret = None

\* top10 of a collection of more than 10 entries with equal sizes on both
\* sides of the cut
C12_Witness ==
    /\ call.op = "top10" /\ call.obj_type = "folder"
    /\ Len(all_folders) = 11 /\ Len(out) = 10
    /\ all_folders[1].size = 1 /\ all_folders[2].size = 2 /\ all_folders[3].size = 2
    /\ all_folders[11].size = 1
    /\ out[1].name = all_folders[2].name /\ out[2].name = all_folders[3].name

----------------------------------------------------------------------------
(* upload of an archive                                                    *)

\* The disks an archive f.zip is uploaded to: every part, closed under
\* parents, of a tree whose entries named f lie in folders f, a and a/b
ZipFiles ==
    (Path(<< <<"f">>, <<"f">> >>) :> <<7>>) @@
    (Path(<< <<"a">>, <<"f">> >>) :> <<8, 8>>) @@
    (Path(<< <<"a">>, <<"b">>, <<"f", ".", "t", "x", "t">> >>) :> <<9>>)

ZipTrees ==
    {t \in {[rd |-> D, rf |-> [q \in F |-> ZipFiles[q]]] :
               D \in SUBSET {Path(<< <<"f">> >>), Path(<< <<"a">> >>),
                              Path(<< <<"a">>, <<"b">> >>)},
               F \in SUBSET DOMAIN ZipFiles} :
        \A q \in t.rd \cup DOMAIN t.rf : IsDir(t.rd, ParentOf(q))}

\* YaDisk(token) on such a disk
InitZip ==
    /\ \E t \in ZipTrees :
          /\ rdirs = t.rd
          /\ rfiles = t.rf
          /\ \E w \in {ParseCatalogues(t.rd, t.rf, Slash, <<>>, <<>>)} :
                all_files = w.files /\ all_folders = w.folders
    /\ downloads = NoLocal
    /\ call = Idle
    /\ prev = Idle
    /\ log = <<>>
    /\ out = <<>>
    /\ ret = None

\* The local files upload may be given whose name has ".zip"
ZipObjects == {o \in UploadObjects : o.shape = "local" /\ Contains(o.name, DotZip)}

\* upload(archive)
DoUploadZip == call = Idle /\ UploadCall(ZipObjects, Faults, {"first"})

NextZip == Discard \/ DoUploadZip

SpecZip == InitZip /\ [][NextZip]_vars

\* The remote path of name in the folder parent
ChildOf(parent, name) ==
    IF parent = RootPath THEN RootPath \o name ELSE parent \o Slash \o name

\* The catalogue entry an archive's target is taken from: the first file, or
\* with no such file the first folder, whose name up to its extension is the
\* archive's name without ".zip"; None if there is neither
ZipMatch(files, folders, object) ==
    LET name == SplitFirst(object.name, DotZip)
        i == FirstNamed(files, name)
        j == FirstNamed(folders, name)
    IN IF i # 0 THEN files[i] ELSE IF j # 0 THEN folders[j] ELSE None

\* C13: an upload of name.zip asks upload URLs and sends content only for
\* name.zip in the parent folder of the first file of all_files named name,
\* or with no such file of the first such folder of all_folders; it sends the
\* content once, and does send it when that path is free and the remote
\* answers every request
C13_ZipTarget ==
    [][(call = Idle /\ call'.op = "upload" /\ call'.object.shape = "local"
        /\ Contains(call'.object.name, DotZip)
        /\ ZipMatch(all_files, all_folders, call'.object) # None) =>
          LET entry == ZipMatch(all_files, all_folders, call'.object)
              target == ChildOf(ParentOf(entry.path), call'.object.name)
              sent == {n \in 1..Len(log') : log'[n].k = "PUT_HREF"}
          IN /\ \A n \in 1..Len(log') :
                   log'[n].k \in {"GET_UPLOAD", "PUT_HREF"} => log'[n].path = target
             /\ Cardinality(sent) <= 1
             /\ (call'.flt = {} /\ ~Exists(rdirs, rfiles, target)) => Cardinality(sent) = 1
    ]_vars

----------------------------------------------------------------------------
(* download                                                                *)

\* The step is a call of download
DownloadStep == call'.op = "download" /\ (call = Idle \/ call.op # "download")

NextMirror == Discard \/ DoDownload

SpecMirror == InitZip /\ [][NextMirror]_vars

\* C15: after download(entry) has completed, the file of a file entry, and
\* every file at any depth below a folder entry, is at
\* downloads/<its remote path below the root>
C15_Mirror ==
    (call.op = "download" /\ ret.k \in {"file_downloaded", "folder_downloaded"}) =>
        IF call.item.type = "dir"
        THEN \A q \in DOMAIN rfiles :
                Below(q, call.item.path) => LocalCopy(q) \in DOMAIN downloads.files
        ELSE LocalCopy(call.item.path) \in DOMAIN downloads.files

----------------------------------------------------------------------------
(* upload by URL                                                           *)

\* The file names of the two photos: likes 1 on 1970-01-01, likes 12 a day later
PhotoName(photo) ==
    IF photo = Photo1
    THEN <<"1", "_", "1", "9", "7", "0", "-", "0", "1", "-", "0", "1", ".", "j", "p", "g">>
    ELSE <<"1", "2", "_", "1", "9", "7", "0", "-", "0", "1", "-", "0", "2", ".", "j", "p", "g">>

\* The fetch-by-URL requests of log, in order
Posts(l) == SelectSeq(l, LAMBDA e : e.k = "POST_UPLOAD")

\* The place in log of its first fetch-by-URL request (past its end if none)
FirstPost(l) ==
    IF \E n \in 1..Len(l) : l[n].k = "POST_UPLOAD"
    THEN CHOOSE n \in 1..Len(l) : l[n].k = "POST_UPLOAD" /\ \A m \in 1..(n - 1) : l[m].k # "POST_UPLOAD"
    ELSE Len(l) + 1

\* The order of a URL import: the query for photos/<album> first, every
\* folder request before the fetches, one fetch per list entry in list
\* order for photos/<album>/<likes>_<date>.jpg, whatever the earlier ones
\* were answered, and the reload last
ImportInOrder ==
    LET list == call.object.list
        target == Canon(UploadTarget(call.object))
        posts == Posts(log)
    IN /\ log[1].k = "GET" /\ (1 \notin call.flt => log[1].path = target)
       /\ \A n \in 1..Len(log) : log[n].k \in {"GET", "PUT"} => n < FirstPost(log)
       /\ Len(posts) = Len(list)
       /\ \A n \in 1..Len(list) :
             /\ posts[n].path = target \o Slash \o PhotoName(list[n])
             /\ posts[n].body = list[n].url
       /\ log[Len(log)] = ReloadMark
       /\ \A n \in 1..(Len(log) - 1) : log[n] = ReloadMark => n < FirstPost(log)
       /\ ret = None

\* C16: an upload of (list of (url, likes, date), album) first ensures the
\* folder photos/<album>, so that it exists when the remote answered every
\* request, then asks one fetch per list entry in list order for
\* photos/<album>/<likes>_<date>.jpg, a failed one not stopping the later
\* ones, and then reloads
C16_UrlImport ==
    (call.op = "upload" /\ call.object.shape = "urls") =>
        /\ ImportInOrder
        /\ call.flt = {} => IsDir(rdirs, Canon(UploadTarget(call.object)))

----------------------------------------------------------------------------
(* The catalogue walk, one request at a time                               *)
(*   call.stack  the calls of _parse_catalogues now open, the innermost    *)
(*               last; of each, the folder item it walks (the root walk    *)
(*               has none), the items of its listing still to visit, and   *)
(*               its yadisk_size so far                                    *)
(*   call.pc     where the walk is: "walk", "returned" or "raised"         *)
(*   call.failed whether a listing of this walk was answered with a        *)
(*               failure                                                   *)

\* What the remote answers a listing request with: the listing, an error
\* with a JSON body (which has no "_embedded"), or an error without one
Answers == {"ok", "error", "no_json"}

\* response.json()['_embedded']['items'] read as an empty list when the
\* response has none
EmbeddedItemsOrNone(rd, rf, path, answer) ==
    [raise |-> "", items |-> IF answer = "ok" THEN Items(rd, rf, Canon(path)) ELSE <<>>]

\* response.json()['_embedded']['items'] of the listing of path
EmbeddedItems(rd, rf, path, answer) ==
    IF answer = "ok" THEN [raise |-> "", items |-> Items(rd, rf, Canon(path))]
    ELSE IF answer = "error" THEN [raise |-> "KeyError", items |-> <<>>]
    ELSE [raise |-> "ValueError", items |-> <<>>]

\* The walk w = [stack, files, folders, pc, ret] entering a folder with its
\* entry appended at once, before its items are visited
WalkEnterAppending(w, item, listing) ==
    IF listing.raise # ""
    THEN [w EXCEPT !.stack = <<>>, !.pc = "raised",
                   !.ret = [k |-> "raise", exc |-> listing.raise]]
    ELSE [w EXCEPT !.stack = Append(@, [item |-> item, items |-> listing.items, size |-> 0]),
                   !.folders = IF item = None THEN @
                               ELSE Append(@, YaFolder([size |-> 0] @@ item))]

\* _parse_catalogues(item["path"]) is called: its request, and the exception
\* that ends every open call when the response has no items
WalkEnter(w, item, listing) ==
    IF listing.raise # ""
    THEN [w EXCEPT !.stack = <<>>, !.pc = "raised",
                   !.ret = [k |-> "raise", exc |-> listing.raise]]
    ELSE [w EXCEPT !.stack = Append(@, [item |-> item, items |-> listing.items, size |-> 0])]

\* The innermost call visits a file item
WalkFileItem(w) ==
    Bind(Len(w.stack), LAMBDA d :
    Bind(Head(w.stack[d].items), LAMBDA item :
         [w EXCEPT !.stack[d].items = Tail(@),
                   !.stack[d].size = @ + item.size,
                   !.files = Append(@, YaFile(item))]))

\* The innermost call returns its yadisk_size: to the caller of the walk, or
\* to the call that visits its folder, which appends the folder's entry
WalkLeave(w) ==
    Bind(Len(w.stack), LAMBDA d :
    Bind(w.stack[d], LAMBDA top :
         IF d = 1
         THEN [w EXCEPT !.stack = <<>>, !.pc = "returned",
                        !.ret = [k |-> "size", size |-> top.size]]
         ELSE [w EXCEPT !.stack = [SubSeq(@, 1, d - 1) EXCEPT
                                       ![d - 1].items = Tail(@),
                                       ![d - 1].size = @ + top.size],
                        !.folders = Append(@, YaFolder([size |-> top.size] @@ top.item))]))

WalkState ==
    [stack |-> IF call.op = "walk" THEN call.stack ELSE <<>>,
     files |-> all_files, folders |-> all_folders, pc |-> "walk", ret |-> None]

\* The walk is now as in w; failed tells whether its last request failed
WalkCommit(w, failed) ==
    /\ all_files' = w.files
    /\ all_folders' = w.folders
    /\ call' = [op |-> "walk", pc |-> w.pc, stack |-> w.stack,
                failed |-> failed \/ (call.op = "walk" /\ call.failed)]
    /\ ret' = w.ret
    /\ UNCHANGED <<rdirs, rfiles, downloads, log, out, prev>>

\* reload(): the catalogue is emptied and the walk of the root begins
StartReload ==
    /\ call = Idle
    /\ \E answer \in Answers :
          WalkCommit(WalkEnter([WalkState EXCEPT !.files = <<>>, !.folders = <<>>], None,
                               EmbeddedItems(rdirs, rfiles, Slash, answer)),
                     answer # "ok")

Walking == call.op = "walk" /\ call.pc = "walk"

TopItems == call.stack[Len(call.stack)].items

\* The next item is a folder: the walk goes into it
WalkDir ==
    /\ Walking /\ TopItems # <<>> /\ Head(TopItems).type = "dir"
    /\ \E answer \in Answers :
          WalkCommit(WalkEnter(WalkState, Head(TopItems),
                               EmbeddedItems(rdirs, rfiles, Head(TopItems).path, answer)),
                     answer # "ok")

\* The next item is a file
WalkFile ==
    /\ Walking /\ TopItems # <<>> /\ Head(TopItems).type # "dir"
    /\ WalkCommit(WalkFileItem(WalkState), FALSE)

\* No item is left
WalkReturn ==
    /\ Walking /\ TopItems = <<>>
    /\ WalkCommit(WalkLeave(WalkState), FALSE)

\* The walk has ended and the caller is done with its result
WalkDone ==
    /\ call.op = "walk" /\ call.pc # "walk"
    /\ Discard

NextWalk == StartReload \/ WalkDir \/ WalkFile \/ WalkReturn \/ WalkDone

\* YaDisk(token) on a disk with a chain of folders or with folders side by side
InitWalk ==
    /\ \E t \in InitTrees \cup ZipTrees :
          /\ rdirs = t.rd
          /\ rfiles = t.rf
          /\ \E w \in {ParseCatalogues(t.rd, t.rf, Slash, <<>>, <<>>)} :
                all_files = w.files /\ all_folders = w.folders
    /\ downloads = NoLocal
    /\ call = Idle
    /\ prev = Idle
    /\ log = <<>>
    /\ out = <<>>
    /\ ret = None

SpecWalk == InitWalk /\ [][NextWalk]_vars

CataloguePaths ==
    {all_files[i].path : i \in 1..Len(all_files)} \cup
    {all_folders[i].path : i \in 1..Len(all_folders)}

RECURSIVE SumLens(_, _)
SumLens(rf, S) ==
    IF S = {} THEN 0
    ELSE LET q == CHOOSE x \in S : TRUE IN Len(rf[q]) + SumLens(rf, S \ {q})

\* The bytes of the files below the folder p
TreeSize(p) == SumLens(rfiles, {q \in DOMAIN rfiles : Below(q, p)})

\* The catalogue has every resource of the remote once, each folder after
\* everything below it
Complete ==
    /\ CataloguePaths = rdirs \cup DOMAIN rfiles
    /\ Len(all_files) = Cardinality(DOMAIN rfiles)
    /\ Len(all_folders) = Cardinality(rdirs)

\* C17: a listing answered with a failure, at the root or at any folder,
\* ends the walk at that request with an exception that reaches the caller,
\* who gets no size; a walk that returns a size met no failure and its
\* catalogue is complete
C17_WalkFailure ==
    call.op = "walk" =>
        /\ call.failed => (call.pc = "raised" /\ ret.k = "raise" /\ call.stack = <<>>)
        /\ call.pc = "returned" =>
              (~call.failed /\ Complete /\ ret = [k |-> "size", size |-> TreeSize(RootPath)])

\* A walk failed at a folder below the root after it had appended entries
C17_Witness ==
    /\ call.op = "walk" /\ call.pc = "raised"
    /\ Len(all_files) > 0 /\ Len(all_folders) > 0
    /\ CataloguePaths # rdirs \cup DOMAIN rfiles

\* C18: at every point of a walk, finished, failed or going on, each folder
\* entry of all_folders has the size of everything below the folder and
\* every resource below the folder has its entry already
C18_ChildrenFirst ==
    \A i \in 1..Len(all_folders) :
        /\ all_folders[i].size = TreeSize(all_folders[i].path)
        /\ \A q \in rdirs \cup DOMAIN rfiles :
              Below(q, all_folders[i].path) => q \in CataloguePaths

\* A walk is going on inside a folder, after the entry of a folder that has
\* a subfolder and files was appended
C18_Witness ==
    /\ Walking /\ Len(call.stack) > 1
    /\ \E i \in 1..Len(all_folders) :
          /\ all_folders[i].size > 0
          /\ \E q \in rdirs : Below(q, all_folders[i].path)

----------------------------------------------------------------------------
(* delete of one entry, one request at a time                              *)
(*   call.pc     "query": _check_existance is about to ask; "test": it has *)
(*               the answer call.st; "reload": the loop is left;           *)
(*               "returned": delete has returned                           *)
(*   call.del    the folder the remote is still to remove after it         *)
(*               accepted the deletion with 202 (<<>> = none)              *)
(*   call.polls  the existence queries so far, counted up to MaxPolls      *)

MaxPolls == 3      \* existence queries of one delete that are told apart

\* A loop condition that gives up after MaxPolls queries
CheckAgainBounded(status_code, polls) == status_code # 404 /\ polls < MaxPolls

\* while test.status_code != 404
CheckAgain(status_code, polls) == status_code # 404

\* The remote as one request of the call meets it: failing it or not, with
\* the folder in call.del still found
PollState(fails) ==
    [CallState(IF fails THEN {1} ELSE {}, "first", 1) EXCEPT
        !.del = IF call.op = "poll" THEN call.del ELSE <<>>, !.vis = 1]

PollCommit(s, c) ==
    /\ rdirs' = s.rd
    /\ rfiles' = s.rf
    /\ all_files' = s.af
    /\ all_folders' = s.ad
    /\ log' = s.log
    /\ ret' = IF s.ret = NoRet THEN None ELSE s.ret
    /\ call' = c
    /\ UNCHANGED <<downloads, out, prev>>

\* delete(obj) up to the response to its DELETE request: returned when the
\* request failed, else _check_existance is entered
StartDelete ==
    /\ call = Idle
    /\ \E obj \in Entries, fails \in BOOLEAN, permanent \in BOOLEAN :
          \E put \in {RemoteDelete(PollState(fails), obj.path)} :
             IF put.st >= 300
             THEN PollCommit(ErrorPair(put),
                             [op |-> "poll", pc |-> "returned", obj |-> obj,
                              permanent |-> permanent, del |-> <<>>, st |-> put.st,
                              polls |-> 0])
             ELSE PollCommit(put,
                             [op |-> "poll", pc |-> "query", obj |-> obj,
                              permanent |-> permanent, del |-> put.del, st |-> put.st,
                              polls |-> 0])

\* test = requests.get(self.URL, headers=self.headers, params=param)
PollQuery ==
    /\ call.op = "poll" /\ call.pc = "query"
    /\ \E fails \in BOOLEAN :
          \E test \in {RemoteGet(PollState(fails), StrParam(call.obj.path))} :
             PollCommit(test, [call EXCEPT !.pc = "test", !.st = test.st,
                                           !.polls = IF @ < MaxPolls THEN @ + 1 ELSE @])

\* The loop condition: another query, or the loop is left
PollTest ==
    /\ call.op = "poll" /\ call.pc = "test"
    /\ call' = [call EXCEPT !.pc = IF CheckAgain(call.st, call.polls)
                                   THEN "query" ELSE "reload"]
    /\ UNCHANGED <<rdirs, rfiles, all_files, all_folders, downloads, log, out, ret, prev>>

\* The remote completes the deletion it accepted
Vanish ==
    /\ call.op = "poll" /\ call.del # <<>>
    /\ \E s \in {Removed(PollState(FALSE), call.del)} :
          /\ rdirs' = s.rd
          /\ rfiles' = s.rf
    /\ call' = [call EXCEPT !.del = <<>>]
    /\ UNCHANGED <<all_files, all_folders, downloads, log, out, ret, prev>>

\* self.reload() and the return of delete
PollFinish ==
    /\ call.op = "poll" /\ call.pc = "reload"
    /\ PollCommit(Return(Reload(PollState(FALSE)),
                         [k |-> "deleted", permanently |-> call.permanent]),
                  [call EXCEPT !.pc = "returned"])

\* The caller is done with what delete returned
PollDone ==
    /\ call.op = "poll" /\ call.pc = "returned"
    /\ Discard

NextPoll == StartDelete \/ PollQuery \/ PollTest \/ Vanish \/ PollFinish \/ PollDone

\* delete runs in one thread without waiting: a step it can take it takes.
\* Nothing is assumed of the remote or of the caller.
SpecPoll ==
    /\ Init /\ [][NextPoll]_vars
    /\ WF_vars(PollQuery) /\ WF_vars(PollTest) /\ WF_vars(PollFinish)

Polling == call.op = "poll" /\ call.pc \in {"query", "test"}

\* C19: once delete's existence poll has started it is left only on an
\* answer 404; from an answer 404 delete goes on to return; and as long as
\* no answer is 404 the poll asks again without end, however many times it
\* has asked
C19_PollRuns ==
    /\ [][(Polling /\ ~Polling') => (call.st = 404 /\ call'.pc = "reload")]_vars
    /\ [](call.op = "poll" /\ call.pc \in {"reload", "returned"} /\ call.polls > 0
              => call.st = 404)
    /\ (call.op = "poll" /\ call.pc = "test" /\ call.st = 404)
           ~> (call.op = "poll" /\ call.pc = "returned" /\ ret.k = "deleted")
    /\ ([]<><<PollQuery>>_vars) \/ (<>[]~Polling)

\* delete returned after MaxPolls or more existence queries, the folder
\* having been found before the remote removed it
C19_Witness ==
    /\ call.op = "poll" /\ call.pc = "returned" /\ ret.k = "deleted"
    /\ call.polls = MaxPolls
    /\ ~Exists(rdirs, rfiles, Canon(call.obj.path))

----------------------------------------------------------------------------
(* The two steps of a file transfer                                        *)

\* The requests of log of kind k for the remote path p
RequestsFor(l, k, p) == {i \in 1..Len(l) : l[i].k = k /\ l[i].path = p}

\* No content is sent to a path without an upload URL given for it before
ContentAfterUrl ==
    \A j \in 1..Len(log) : log[j].k = "PUT_HREF" =>
        \E i \in RequestsFor(log, "GET_UPLOAD", log[j].path) : i < j /\ log[i].status = 200

\* C20: in an upload of a local directory or file, content is sent to a
\* path only after an upload URL was given for that path, an upload URL is
\* requested once per file, and every upload URL given is used by one PUT
\* of content that follows it
C20_TwoStep ==
    (call.op = "upload" /\ call.object.shape = "local") =>
        /\ ContentAfterUrl
        /\ \A i \in 1..Len(log) : log[i].k = "GET_UPLOAD" =>
              /\ RequestsFor(log, "GET_UPLOAD", log[i].path) = {i}
              /\ log[i].status = 200 =>
                    /\ Cardinality(RequestsFor(log, "PUT_HREF", log[i].path)) = 1
                    /\ \A j \in RequestsFor(log, "PUT_HREF", log[i].path) : i < j

----------------------------------------------------------------------------
(* A failed delete request                                                 *)

\* C21: when the delete request of a delete of one object is answered with
\* a status >= 300, delete returns that status with the body of the
\* response, having issued no existence query and no reload, and all_files
\* and all_folders are as they were before the call
C21_DeleteError ==
    [][(/\ call = Idle /\ call'.op = "delete" /\ ~call'.list
        /\ log'[1].k = "DELETE" /\ log'[1].status >= 300) =>
          /\ Len(log') = 1
          /\ log'[1].path = Canon(call'.objects[1].path)
          /\ log'[1].body = ErrorJson(log'[1].status)
          /\ ret' = [k |-> "error", status |-> log'[1].status, body |-> log'[1].body]
          /\ all_files' = all_files /\ all_folders' = all_folders
          /\ rdirs' = rdirs /\ rfiles' = rfiles
    ]_vars

\* A delete of one folder with content came back with the failure of its
\* delete request
C21_Witness ==
    /\ call.op = "delete" /\ ~call.list /\ ret.k = "error" /\ ret.status >= 300
    /\ Len(log) = 1 /\ log[1].k = "DELETE"
    /\ call.objects[1].type = "dir" /\ Len(all_files) > 0

============================================================================
